---- MODULE Spec2Model ----
(***************************************************************************)
(* Model of pyppeteer/input.py: the Keyboard, Mouse and Touchscreen        *)
(* controllers that turn calls into Input.dispatch*Event messages sent     *)
(* over a CDP session.  Every public coroutine is modelled by one action   *)
(* that runs it from the call to its first suspension and by one action    *)
(* per resumption; a suspension is either the wait for the session's       *)
(* answer to a send or an asyncio.sleep.                                   *)
(***************************************************************************)
EXTENDS Integers, Sequences, FiniteSets, TLC

(***************************************************************************)
(* Bounds of the model.                                                    *)
(***************************************************************************)
\* number of caller tasks; the sequential specification uses task 1 only
NumProcs == 2
\* a caller holds at most this many keys at the same time
MaxHeld == 2
\* largest steps option given to Mouse.move
MaxSteps == 3
\* largest delay option (milliseconds); 0 is "no delay"
MaxDelay == 1

Procs == 1..NumProcs

\* Python's None
None == "None"

(***************************************************************************)
(* pyppeteer.us_keyboard_layout.keyDefinitions: a part of the table, with  *)
(* left/right modifier keys that share a label, key names that share a     *)
(* hardware code, a key with a text, and a keypad key with shift variants. *)
(***************************************************************************)
keyDefinitions ==
  [ Shift      |-> [keyCode |-> 16, code |-> "ShiftLeft", key |-> "Shift", location |-> 1],
    ShiftRight |-> [keyCode |-> 16, code |-> "ShiftRight", key |-> "Shift", location |-> 2],
    Alt        |-> [keyCode |-> 18, code |-> "AltLeft", key |-> "Alt", location |-> 1],
    Control    |-> [keyCode |-> 17, code |-> "ControlLeft", key |-> "Control", location |-> 1],
    Meta       |-> [keyCode |-> 91, code |-> "MetaLeft", key |-> "Meta", location |-> 1],
    Enter      |-> [keyCode |-> 13, code |-> "Enter", key |-> "Enter", text |-> "\r"],
    KeyA       |-> [keyCode |-> 65, code |-> "KeyA", shiftKey |-> "A", key |-> "a"],
    a          |-> [keyCode |-> 65, key |-> "a", code |-> "KeyA"],
    Numpad1    |-> [keyCode |-> 35, shiftKeyCode |-> 97, key |-> "End", code |-> "Numpad1",
                    shiftKey |-> "1", location |-> 3] ]

\* the key names of the table
KnownKeys == DOMAIN keyDefinitions

\* a key name that is not in the table
UnknownKeys == {"Frobnicate"}

KeyNames == KnownKeys \cup UnknownKeys

\* the key names used where the keyboard runs together with the mouse and the
\* touchscreen
JointKeys == {"Shift", "ShiftRight", "Alt", "a"} \cup UnknownKeys

\* the labels of one character: len(description['key']) == 1
SingleChar == {"a", "A", "1"}

\* the values of the text option of down: absent, or an override
TextOpts == {None, "q"}

\* the texts given to Keyboard.type, as sequences of characters
Texts == {<< >>, <<"a">>, <<"H", "i">>}

\* the characters given to Keyboard.sendCharacter
Chars == {"a", "!"}

\* the points given to Mouse.move and Mouse.click
Targets == {<<0, 0>>, <<1, 2>>, <<-3, 0>>}

\* the points given to Touchscreen.tap, in halves: <<3, -1>> is (1.5, -0.5)
TapHalves == {<<3, -1>>, <<4, 1>>, <<5, 0>>}

\* the values of the button option: absent, or a button
ButtonOpts == {None, "right"}

\* the values of the clickCount option: 0 stands for an absent option (None
\* and 0 are both falsy in "options.get('clickCount') or 1"), or a count
ClickCountOpts == {0, 2}

(***************************************************************************)
(* Bit operations on the modifier mask, for a mask b of one bit (or 0).    *)
(***************************************************************************)
HasBit(m, b) == b # 0 /\ (m \div b) % 2 = 1

BitOr(m, b) == IF b = 0 \/ HasBit(m, b) THEN m ELSE m + b

BitClear(m, b) == IF HasBit(m, b) THEN m - b ELSE m

\* Keyboard._modifierBit
modifierBit(key) ==
  IF key = "Alt" THEN 1
  ELSE IF key = "Control" THEN 2
  ELSE IF key = "Meta" THEN 4
  ELSE IF key = "Shift" THEN 8
  ELSE 0

\* definition.get(f) is truthy, for a field f that holds a string
Truthy(definition, f) == f \in DOMAIN definition /\ definition[f] # ""

\* definition.get(f) is truthy, for a field f that holds a number
TruthyNum(definition, f) == f \in DOMAIN definition /\ definition[f] # 0

\* self._modifiers & ~8 (faulty variant: the mask also drops the Alt bit)
NonShiftModifiersWrongMask(mods) == BitClear(BitClear(mods, 8), 1)

\* self._modifiers & ~8
NonShiftModifiers(mods) == BitClear(mods, 8)

\* keyDefinitions.get(keyString): the entry, or None (here the empty entry)
definitionOf(keyString) ==
  IF keyString \in DOMAIN keyDefinitions THEN keyDefinitions[keyString]
  ELSE [f \in {} |-> ""]

\* "if not definition: raise PyppeteerError" (faulty variant: the check is missing)
UnknownKeyUnchecked(keyString) == FALSE

\* "if not definition: raise PyppeteerError('Unknown key: ...')"
UnknownKey(keyString) == DOMAIN definitionOf(keyString) = {}

\* Keyboard._keyDescriptionForString when it does not raise, as a function of
\* the key name and of self._modifiers
keyDescriptionForString(keyString, mods) ==
  LET shift == HasBit(mods, 8)
      definition == definitionOf(keyString)
      key == IF shift /\ Truthy(definition, "shiftKey") THEN definition.shiftKey
             ELSE IF "key" \in DOMAIN definition THEN definition.key ELSE ""
      keyCode == IF shift /\ TruthyNum(definition, "shiftKeyCode") THEN definition.shiftKeyCode
                 ELSE IF "keyCode" \in DOMAIN definition THEN definition.keyCode ELSE 0
      code == IF "code" \in DOMAIN definition THEN definition.code ELSE ""
      location == IF "location" \in DOMAIN definition THEN definition.location ELSE 0
      text0 == IF key \in SingleChar THEN key ELSE ""
      text1 == IF "text" \in DOMAIN definition THEN definition.text ELSE text0
      text2 == IF shift /\ Truthy(definition, "shiftText") THEN definition.shiftText ELSE text1
      text == IF NonShiftModifiers(mods) # 0 THEN "" ELSE text2
  IN [key |-> key, keyCode |-> keyCode, code |-> code, text |-> text, location |-> location]

VARIABLES
  _modifiers,    \* Keyboard._modifiers
  _pressedKeys,  \* Keyboard._pressedKeys
  _x,            \* Mouse._x
  _y,            \* Mouse._y
  _button,       \* Mouse._button
  call,          \* per task: the public operation it runs and its arguments
  stage,         \* per task: "idle", the await it is suspended at, or "done"
  idx,           \* per task: the loop variable of Mouse.move / Keyboard.type
  sent,          \* per task: the events its current call handed to the session
  acked,         \* per task: how many of them the session has answered
  outcome,       \* per task: how its last call ended
  pre,           \* per task: the controllers' state when its call started
  atSend,        \* per task: the controllers' state at the last send of its call
  okState,       \* per task: the controllers' state at the last answered send
                 \* of its call (at the start of the call when there is none)
  overlapping    \* whether the tasks call without awaiting one another

vars == <<_modifiers, _pressedKeys, _x, _y, _button, call, stage, idx, sent,
          acked, outcome, pre, atSend, okState, overlapping>>

kbd == <<_modifiers, _pressedKeys>>

mouse == <<_x, _y, _button>>

\* the controllers' state as one record
State ==
  [modifiers |-> _modifiers, pressedKeys |-> _pressedKeys,
   x |-> _x, y |-> _y, button |-> _button]

NoCall == [op |-> "none"]

\* what the history variables record: the controllers' state for the single
\* caller; nothing for overlapping callers, whose properties are stated on
\* the events and the state alone
Snapshot ==
  IF overlapping
  THEN [modifiers |-> 0, pressedKeys |-> {}, x |-> 0, y |-> 0, button |-> "none"]
  ELSE State

\* Keyboard.__init__, Mouse.__init__: the state after construction, for a
\* single caller that awaits each call
Init ==
  /\ overlapping = FALSE
  /\ _modifiers = 0
  /\ _pressedKeys = {}
  /\ _x = 0
  /\ _y = 0
  /\ _button = "none"
  /\ call = [p \in Procs |-> NoCall]
  /\ stage = [p \in Procs |-> "idle"]
  /\ idx = [p \in Procs |-> 0]
  /\ sent = [p \in Procs |-> << >>]
  /\ acked = [p \in Procs |-> 0]
  /\ outcome = [p \in Procs |-> "none"]
  /\ pre = [p \in Procs |-> [modifiers |-> 0, pressedKeys |-> {}, x |-> 0, y |-> 0,
                             button |-> "none"]]
  /\ atSend = [p \in Procs |-> [modifiers |-> 0, pressedKeys |-> {}, x |-> 0, y |-> 0,
                                button |-> "none"]]
  /\ okState = [p \in Procs |-> [modifiers |-> 0, pressedKeys |-> {}, x |-> 0, y |-> 0,
                                 button |-> "none"]]

(***************************************************************************)
(* Bookkeeping of a task: its call, where it is suspended, what it sent.   *)
(***************************************************************************)
Idle(p) == stage[p] \in {"idle", "done"}

Ctl(p, c, stg, i, s, a, o) ==
  /\ call' = [call EXCEPT ![p] = c]
  /\ stage' = [stage EXCEPT ![p] = stg]
  /\ idx' = [idx EXCEPT ![p] = i]
  /\ sent' = [sent EXCEPT ![p] = s]
  /\ acked' = [acked EXCEPT ![p] = a]
  /\ outcome' = [outcome EXCEPT ![p] = o]
  /\ UNCHANGED overlapping

\* the task hands event ev to the session and is suspended at stg
SendEvent(p, c, stg, i, s, a, ev) ==
  /\ Ctl(p, c, stg, i, Append(s, ev), a, "none")
  /\ atSend' = [atSend EXCEPT ![p] = Snapshot']

\* the call of the task ends with outcome o without a further send
Finish(p, c, i, s, a, o) ==
  /\ Ctl(p, c, "done", i, s, a, o)
  /\ atSend' = [atSend EXCEPT ![p] = IF s = << >> THEN pre'[p] ELSE @]

\* the public calls start one at a time: the task is the single logical
\* caller and no other task is inside a call; overlapping callers each start
\* a call whenever their own last call has ended
MayStart(p) ==
  IF overlapping THEN Idle(p) ELSE p = 1 /\ \A q \in Procs : Idle(q)

\* a call of the task starts
Start(p) ==
  /\ MayStart(p)
  /\ pre' = [pre EXCEPT ![p] = Snapshot]
  /\ okState' = [okState EXCEPT ![p] = Snapshot]

\* the task stays inside its call, with no send answered
Inside == UNCHANGED <<pre, okState>>

\* the session answered the send the task waited for
Answered(p) ==
  /\ UNCHANGED pre
  /\ okState' = [okState EXCEPT ![p] = Snapshot]

(***************************************************************************)
(* Keyboard                                                                *)
(***************************************************************************)
\* autoRepeat = description['key'] in self._pressedKeys
\* (faulty variant: the hardware code is looked up)
autoRepeatByCode(description, pressed) == description.code \in pressed

\* autoRepeat = description['key'] in self._pressedKeys
autoRepeatOf(description, pressed) == description.key \in pressed

\* self._pressedKeys.add(description['code']) (faulty variant: the label is added)
pressedAddLabel(description, pressed) == pressed \cup {description.key}

\* self._pressedKeys.add(description['code'])
pressedAdd(description, pressed) == pressed \cup {description.code}

\* self._pressedKeys.remove(description['code']) raises KeyError
\* (faulty variant: discard, which never raises)
removeNeverRaises(description, pressed) == FALSE

\* self._pressedKeys.remove(description['code']) raises KeyError
removeRaises(description, pressed) == description.code \notin pressed

\* self._modifiers &= ~self._modifierBit(description['key'])
\* (faulty variant: the bit is not cleared)
upModifiersKept(mods, description) == mods

\* self._modifiers &= ~self._modifierBit(description['key'])
\* (faulty variant: the bit stays while another key of the label is pressed)
upModifiersWhileHeld(mods, description) ==
  IF \E k \in KnownKeys : /\ keyDefinitions[k].key = description.key
                          /\ keyDefinitions[k].code \in _pressedKeys \ {description.code}
  THEN mods
  ELSE BitClear(mods, modifierBit(description.key))

\* self._modifiers &= ~self._modifierBit(description['key'])
upModifiers(mods, description) == BitClear(mods, modifierBit(description.key))

\* the parameters of the key-down event (faulty variant: the mask is read
\* before line 35 updates it)
KeyDownEventStaleModifiers(description, text, autoRepeat, mods) ==
  [type |-> IF text # "" THEN "keyDown" ELSE "rawKeyDown",
   modifiers |-> _modifiers,
   windowsVirtualKeyCode |-> description.keyCode,
   code |-> description.code,
   key |-> description.key,
   text |-> text,
   unmodifiedText |-> text,
   autoRepeat |-> autoRepeat,
   location |-> description.location,
   isKeypad |-> description.location = 3]

\* the parameters of the key-down event of Keyboard.down
KeyDownEvent(description, text, autoRepeat, mods) ==
  [type |-> IF text # "" THEN "keyDown" ELSE "rawKeyDown",
   modifiers |-> mods,
   windowsVirtualKeyCode |-> description.keyCode,
   code |-> description.code,
   key |-> description.key,
   text |-> text,
   unmodifiedText |-> text,
   autoRepeat |-> autoRepeat,
   location |-> description.location,
   isKeypad |-> description.location = 3]

\* the parameters of the key-up event of Keyboard.up
KeyUpEvent(description, mods) ==
  [type |-> "keyUp",
   modifiers |-> mods,
   key |-> description.key,
   windowsVirtualKeyCode |-> description.keyCode,
   code |-> description.code,
   location |-> description.location]

\* the parameters of the event of Keyboard.sendCharacter
CharEvent(char, mods) ==
  [type |-> "char", modifiers |-> mods, text |-> char, key |-> char,
   unmodifiedText |-> char]

\* Keyboard.down(key, text=textOpt) from its first line to the await of the
\* send; stg names that await in the call c of the task
KeyboardDownBody(p, key, textOpt, c, stg, i, s, a) ==
  IF UnknownKey(key)
  THEN /\ UNCHANGED <<kbd, mouse>>
       /\ Finish(p, c, i, s, a, "UnknownKey")
  ELSE LET description == keyDescriptionForString(key, _modifiers)
           autoRepeat == autoRepeatOf(description, _pressedKeys)
           text == IF textOpt = None THEN description.text ELSE textOpt
       IN /\ Cardinality(_pressedKeys \cup {description.code}) <= MaxHeld
          /\ _pressedKeys' = pressedAdd(description, _pressedKeys)
          /\ _modifiers' = BitOr(_modifiers, modifierBit(description.key))
          /\ UNCHANGED mouse
          /\ SendEvent(p, c, stg, i, s, a,
                       KeyDownEvent(description, text, autoRepeat, _modifiers'))

\* Keyboard.up(key) from its first line to the await of the send
KeyboardUpBody(p, key, c, stg, i, s, a) ==
  IF UnknownKey(key)
  THEN /\ UNCHANGED <<kbd, mouse>>
       /\ Finish(p, c, i, s, a, "UnknownKey")
  ELSE LET description == keyDescriptionForString(key, _modifiers)
       IN /\ _modifiers' = upModifiers(_modifiers, description)
          /\ UNCHANGED mouse
          /\ IF removeRaises(description, _pressedKeys)
             THEN /\ UNCHANGED _pressedKeys
                  /\ Finish(p, c, i, s, a, "InvariantViolation")
             ELSE /\ _pressedKeys' = _pressedKeys \ {description.code}
                  /\ SendEvent(p, c, stg, i, s, a, KeyUpEvent(description, _modifiers'))

\* the test of Keyboard.type (faulty variant: every character is pressed)
typeUsesPressAlways == TRUE

\* 'char' in keyDefinitions, the test of Keyboard.type
typeUsesPress == "char" \in DOMAIN keyDefinitions

\* the key and the options of the Keyboard.press the task is in: its own
\* call, or the press of the current character of Keyboard.type
PressKey(p) == IF call[p].op = "type" THEN call[p].text[idx[p]] ELSE call[p].key

PressText(p) == IF call[p].op = "type" THEN None ELSE call[p].text

\* one turn of the loop of Keyboard.type, for the i-th character, up to the
\* await of its send; the call returns when the text is exhausted
TypeLoop(p, c, i, s, a) ==
  IF i > Len(c.text)
  THEN /\ UNCHANGED <<kbd, mouse>>
       /\ Finish(p, c, i, s, a, "ok")
  ELSE IF typeUsesPress
       THEN KeyboardDownBody(p, c.text[i], None, c, "press.down", i, s, a)
       ELSE /\ UNCHANGED <<kbd, mouse>>
            /\ SendEvent(p, c, "type.char", i, s, a, CharEvent(c.text[i], _modifiers))

\* await keyboard.down(key, text=...)
KeyboardDown(p, key, text) ==
  /\ Start(p)
  /\ KeyboardDownBody(p, key, text, [op |-> "down", key |-> key, text |-> text],
                      "down.send", 0, << >>, 0)

\* await keyboard.up(key)
KeyboardUp(p, key) ==
  /\ Start(p)
  /\ KeyboardUpBody(p, key, [op |-> "up", key |-> key], "up.send", 0, << >>, 0)

\* await keyboard.press(key, text=..., delay=...): runs into Keyboard.down
KeyboardPress(p, key, text, delay) ==
  /\ Start(p)
  /\ KeyboardDownBody(p, key, text,
                      [op |-> "press", key |-> key, text |-> text, delay |-> delay],
                      "press.down", 0, << >>, 0)

\* Keyboard.sendCharacter (faulty variant: the character is recorded as a
\* pressed key)
KeyboardSendCharacterPressing(p, char) ==
  /\ Start(p)
  /\ _pressedKeys' = _pressedKeys \cup {char}
  /\ UNCHANGED <<_modifiers, mouse>>
  /\ SendEvent(p, [op |-> "sendCharacter", char |-> char], "char.send", 0, << >>, 0,
               CharEvent(char, _modifiers))

\* await keyboard.sendCharacter(char)
KeyboardSendCharacter(p, char) ==
  /\ Start(p)
  /\ UNCHANGED <<kbd, mouse>>
  /\ SendEvent(p, [op |-> "sendCharacter", char |-> char], "char.send", 0, << >>, 0,
               CharEvent(char, _modifiers))

\* await keyboard.type(text, delay=...): runs to the send of the first
\* character
KeyboardType(p, text, delay) ==
  /\ Start(p)
  /\ TypeLoop(p, [op |-> "type", text |-> text, delay |-> delay], 1, << >>, 0)

\* Keyboard.type after the press or sendCharacter of a character: the pacing
\* sleep when a delay is given, else the next character
TypeAfterChar(p, a) ==
  IF call[p].delay # 0
  THEN /\ UNCHANGED <<kbd, mouse, atSend>>
       /\ Ctl(p, call[p], "type.sleep", idx[p], sent[p], a, "none")
  ELSE TypeLoop(p, call[p], idx[p] + 1, sent[p], a)

\* Keyboard.press after "await self.down(key, options)": the sleep when a
\* delay is given, else Keyboard.up
PressDownAcked(p) ==
  /\ stage[p] = "press.down"
  /\ Answered(p)
  /\ IF call[p].delay # 0
     THEN /\ UNCHANGED <<kbd, mouse, atSend>>
          /\ Ctl(p, call[p], "press.sleep", idx[p], sent[p], acked[p] + 1, "none")
     ELSE KeyboardUpBody(p, PressKey(p), call[p], "press.up", idx[p], sent[p],
                         acked[p] + 1)

\* Keyboard.press after "await asyncio.sleep(...)": Keyboard.up
PressWake(p) ==
  /\ stage[p] = "press.sleep"
  /\ Inside
  /\ KeyboardUpBody(p, PressKey(p), call[p], "press.up", idx[p], sent[p], acked[p])

\* Keyboard.press after "await self.up(key)": press returns, to its caller
\* or to the loop of Keyboard.type
PressUpAcked(p) ==
  /\ stage[p] = "press.up"
  /\ Answered(p)
  /\ IF call[p].op = "type"
     THEN TypeAfterChar(p, acked[p] + 1)
     ELSE /\ UNCHANGED <<kbd, mouse>>
          /\ Finish(p, call[p], idx[p], sent[p], acked[p] + 1, "ok")

\* Keyboard.type after "await self.sendCharacter(char)"
TypeCharAcked(p) ==
  /\ stage[p] = "type.char"
  /\ Answered(p)
  /\ TypeAfterChar(p, acked[p] + 1)

\* Keyboard.type after "await asyncio.sleep(delay / 1000)": the next character
TypeWake(p) ==
  /\ stage[p] = "type.sleep"
  /\ Inside
  /\ TypeLoop(p, call[p], idx[p] + 1, sent[p], acked[p])

(***************************************************************************)
(* Mouse                                                                   *)
(***************************************************************************)
\* round(num / den) for den > 0 as int() does (faulty variant: truncation downwards)
RoundDown(num, den) == num \div den

\* Python's round(num / den) for den > 0: to the nearest integer, a tie to
\* the even one
Round(num, den) ==
  LET q == num \div den
      r == num % den
  IN IF 2 * r > den THEN q + 1
     ELSE IF 2 * r < den THEN q
     ELSE IF q % 2 = 0 THEN q ELSE q + 1

\* round(from_ + (to - from_) * (i / steps))
Interpolate(from_, to, i, steps) == Round(from_ * steps + (to - from_) * i, steps)

\* options.get('button', 'left')
ButtonOf(buttonOpt) == IF buttonOpt = None THEN "left" ELSE buttonOpt

\* options.get('clickCount') or 1
ClickCountOf(clickCountOpt) == IF clickCountOpt = 0 THEN 1 ELSE clickCountOpt

\* the parameters of the i-th event of Mouse.move, with curX, curY and
\* curButton the values of self._x, self._y and self._button at that time
MouseMovedEvent(c, i, curX, curY, curButton, mods) ==
  [type |-> "mouseMoved",
   button |-> curButton,
   x |-> Interpolate(c.fromX, curX, i, c.steps),
   y |-> Interpolate(c.fromY, curY, i, c.steps),
   modifiers |-> mods]

\* the parameters of the event of Mouse.down
MousePressedEvent(c, curX, curY, curButton, mods) ==
  [type |-> "mousePressed", button |-> curButton, x |-> curX, y |-> curY,
   modifiers |-> mods, clickCount |-> ClickCountOf(c.clickCount)]

\* the parameters of the event of Mouse.up (faulty variant: the button that
\* was active before the call)
MouseReleasedEventActiveButton(c, curX, curY, mods) ==
  [type |-> "mouseReleased", button |-> _button, x |-> curX, y |-> curY,
   modifiers |-> mods, clickCount |-> ClickCountOf(c.clickCount)]

\* the parameters of the event of Mouse.up
MouseReleasedEvent(c, curX, curY, mods) ==
  [type |-> "mouseReleased", button |-> ButtonOf(c.button), x |-> curX, y |-> curY,
   modifiers |-> mods, clickCount |-> ClickCountOf(c.clickCount)]

\* Mouse.move from its first line to the await of the first send
MouseMoveBody(p, c, stg, s, a) ==
  LET m == [c EXCEPT !.fromX = _x, !.fromY = _y]
  IN /\ _x' = m.x
     /\ _y' = m.y
     /\ UNCHANGED <<kbd, _button>>
     /\ SendEvent(p, m, stg, 1, s, a, MouseMovedEvent(m, 1, m.x, m.y, _button, _modifiers))

\* Mouse.down from its first line to the await of the send
MouseDownBody(p, c, stg, i, s, a) ==
  /\ _button' = ButtonOf(c.button)
  /\ UNCHANGED <<kbd, _x, _y>>
  /\ SendEvent(p, c, stg, i, s, a, MousePressedEvent(c, _x, _y, _button', _modifiers))

\* Mouse.up from its first line to the await of the send
MouseUpBody(p, c, stg, i, s, a) ==
  /\ _button' = "none"
  /\ UNCHANGED <<kbd, _x, _y>>
  /\ SendEvent(p, c, stg, i, s, a, MouseReleasedEvent(c, _x, _y, _modifiers))

\* await mouse.move(x, y, steps=...)
MouseMove(p, x, y, steps) ==
  /\ Start(p)
  /\ MouseMoveBody(p, [op |-> "move", x |-> x, y |-> y, steps |-> steps,
                       fromX |-> 0, fromY |-> 0], "move.send", << >>, 0)

\* await mouse.down(button=..., clickCount=...)
MouseDown(p, button, clickCount) ==
  /\ Start(p)
  /\ MouseDownBody(p, [op |-> "mouseDown", button |-> button, clickCount |-> clickCount],
                   "mouseDown.send", 0, << >>, 0)

\* await mouse.up(button=..., clickCount=...)
MouseUp(p, button, clickCount) ==
  /\ Start(p)
  /\ MouseUpBody(p, [op |-> "mouseUp", button |-> button, clickCount |-> clickCount],
                 "mouseUp.send", 0, << >>, 0)

\* the steps of the move of Mouse.click (faulty variant: the steps option of
\* click is handed on to move)
clickMoveStepsFromOptions(stepsOpt) == IF stepsOpt = 0 THEN 1 ELSE stepsOpt

\* the steps of the move of Mouse.click: "await self.move(x, y)" gets none of
\* the options, so steps has its default
clickMoveSteps(stepsOpt) == 1

\* await mouse.click(x, y, button=..., clickCount=..., delay=..., steps=...):
\* runs into Mouse.move(x, y); stepsOpt = 0 stands for no steps option
MouseClick(p, x, y, button, clickCount, delay, stepsOpt) ==
  /\ Start(p)
  /\ MouseMoveBody(p, [op |-> "click", x |-> x, y |-> y,
                       steps |-> clickMoveSteps(stepsOpt),
                       fromX |-> 0, fromY |-> 0, button |-> button,
                       clickCount |-> clickCount, delay |-> delay,
                       stepsOpt |-> stepsOpt], "click.move", << >>, 0)

\* Mouse.move after the send of an event: the next turn of the loop, or the
\* return
MoveAcked(p) ==
  /\ stage[p] = "move.send"
  /\ Answered(p)
  /\ UNCHANGED <<kbd, mouse>>
  /\ IF idx[p] < call[p].steps
     THEN SendEvent(p, call[p], "move.send", idx[p] + 1, sent[p], acked[p] + 1,
                    MouseMovedEvent(call[p], idx[p] + 1, _x, _y, _button, _modifiers))
     ELSE Finish(p, call[p], idx[p], sent[p], acked[p] + 1, "ok")

\* Mouse.click after the send of an event of its move: the next turn of the
\* loop of Mouse.move, or Mouse.down after "await self.move(x, y)"
ClickMoveAcked(p) ==
  /\ stage[p] = "click.move"
  /\ Answered(p)
  /\ IF idx[p] < call[p].steps
     THEN /\ UNCHANGED <<kbd, mouse>>
          /\ SendEvent(p, call[p], "click.move", idx[p] + 1, sent[p], acked[p] + 1,
                       MouseMovedEvent(call[p], idx[p] + 1, _x, _y, _button, _modifiers))
     ELSE MouseDownBody(p, call[p], "click.down", idx[p], sent[p], acked[p] + 1)

\* Mouse.click after "await self.down(options)": the sleep when a delay is
\* given, else Mouse.up
ClickDownAcked(p) ==
  /\ stage[p] = "click.down"
  /\ Answered(p)
  /\ IF call[p].delay # 0
     THEN /\ UNCHANGED <<kbd, mouse, atSend>>
          /\ Ctl(p, call[p], "click.sleep", idx[p], sent[p], acked[p] + 1, "none")
     ELSE MouseUpBody(p, call[p], "click.up", idx[p], sent[p], acked[p] + 1)

\* Mouse.click after "await asyncio.sleep(...)": Mouse.up
ClickWake(p) ==
  /\ stage[p] = "click.sleep"
  /\ Inside
  /\ MouseUpBody(p, call[p], "click.up", idx[p], sent[p], acked[p])

(***************************************************************************)
(* Touchscreen                                                             *)
(***************************************************************************)
\* the parameters of touchStart (faulty variant: the coordinates are cut off
\* as int() does)
TouchStartEventTruncated(c, mods) ==
  [type |-> "touchStart",
   touchPoints |-> <<[x |-> RoundDown(c.x2, 2), y |-> RoundDown(c.y2, 2)]>>,
   modifiers |-> mods]

\* the parameters of the events of Touchscreen.tap
TouchStartEvent(c, mods) ==
  [type |-> "touchStart",
   touchPoints |-> <<[x |-> Round(c.x2, 2), y |-> Round(c.y2, 2)]>>,
   modifiers |-> mods]

TouchEndEvent(mods) == [type |-> "touchEnd", touchPoints |-> << >>, modifiers |-> mods]

\* Touchscreen.tap (faulty variant: touchEnd is handed over without awaiting
\* the send of touchStart)
TouchscreenTapUnawaited(p, x2, y2) ==
  /\ Start(p)
  /\ UNCHANGED <<kbd, mouse>>
  /\ Ctl(p, [op |-> "tap", x2 |-> x2, y2 |-> y2], "tap.end", 0,
         <<TouchStartEvent([x2 |-> x2, y2 |-> y2], _modifiers), TouchEndEvent(_modifiers)>>,
         0, "none")
  /\ atSend' = [atSend EXCEPT ![p] = Snapshot']

\* await touchscreen.tap(x2 / 2, y2 / 2): runs to the send of touchStart
TouchscreenTap(p, x2, y2) ==
  /\ Start(p)
  /\ UNCHANGED <<kbd, mouse>>
  /\ SendEvent(p, [op |-> "tap", x2 |-> x2, y2 |-> y2], "tap.start", 0, << >>, 0,
               TouchStartEvent([x2 |-> x2, y2 |-> y2], _modifiers))

\* Touchscreen.tap after the send of touchStart: the send of touchEnd
TapStartAcked(p) ==
  /\ stage[p] = "tap.start"
  /\ Answered(p)
  /\ UNCHANGED <<kbd, mouse>>
  /\ SendEvent(p, call[p], "tap.end", idx[p], sent[p], acked[p] + 1,
               TouchEndEvent(_modifiers))

(***************************************************************************)
(* The session and the event loop                                          *)
(***************************************************************************)
\* the awaits of a send after which the public call returns
ReturnStages == {"down.send", "up.send", "char.send", "mouseDown.send", "mouseUp.send",
                 "click.up", "tap.end"}

SendStages == ReturnStages \cup {"press.down", "press.up", "type.char", "move.send",
                                 "click.move", "click.down", "tap.start"}

SleepStages == {"press.sleep", "type.sleep", "click.sleep"}

\* the session answers the last send of a call: the call returns
SendAcked(p) ==
  /\ stage[p] \in ReturnStages
  /\ Answered(p)
  /\ UNCHANGED <<kbd, mouse>>
  /\ Finish(p, call[p], idx[p], sent[p], acked[p] + 1, "ok")

\* what a failed send leaves of the controllers' state (faulty variant: a handler
\* that releases the keys and the button)
AbortResets == _modifiers' = 0 /\ _pressedKeys' = {} /\ _button' = "none" /\ UNCHANGED <<_x, _y>>

\* what a failed send leaves of the controllers' state: the exception passes
\* through the awaits, no except or finally clause, everything stays
AbortKeeps == UNCHANGED <<kbd, mouse>>

\* what a cancellation leaves of the controllers' state (faulty variant: press
\* releases its key in a finally clause)
CancelReleases(p) ==
  /\ _pressedKeys' = IF call[p].op = "press" /\ ~UnknownKey(call[p].key)
                     THEN _pressedKeys \ {keyDescriptionForString(call[p].key, _modifiers).code}
                     ELSE _pressedKeys
  /\ UNCHANGED <<_modifiers, mouse>>

\* what a cancellation leaves of the controllers' state: CancelledError
\* passes through the awaits like any exception, everything stays
CancelKeeps(p) == UNCHANGED <<kbd, mouse>>

\* the session fails the send the task waits for; the exception leaves all
\* the coroutines of the call
ChannelFails(p) ==
  /\ stage[p] \in SendStages
  /\ Inside
  /\ AbortKeeps
  /\ Finish(p, call[p], idx[p], sent[p], acked[p], "ChannelFailure")

\* the task is cancelled while suspended at a send or in a sleep
Cancelled(p) ==
  /\ stage[p] \in SendStages \cup SleepStages
  /\ Inside
  /\ CancelKeeps(p)
  /\ Finish(p, call[p], idx[p], sent[p], acked[p], "Cancelled")

\* the resumptions inside the calls of the keyboard
KeyboardResume(p) ==
  \/ PressDownAcked(p)
  \/ PressWake(p)
  \/ PressUpAcked(p)
  \/ TypeCharAcked(p)
  \/ TypeWake(p)

\* the resumptions inside the calls of the mouse and of the touchscreen
PointerResume(p) ==
  \/ MoveAcked(p)
  \/ ClickMoveAcked(p)
  \/ ClickDownAcked(p)
  \/ ClickWake(p)
  \/ TapStartAcked(p)

\* the end of a suspension that is the same for every call
Session(p) ==
  \/ SendAcked(p)
  \/ ChannelFails(p)
  \/ Cancelled(p)

\* the calls of the keyboard, with the key names taken from keys
KeyboardCalls(p, keys) ==
  \/ \E key \in keys, text \in TextOpts : KeyboardDown(p, key, text)
  \/ \E key \in keys : KeyboardUp(p, key)
  \/ \E key \in keys, delay \in 0..MaxDelay : KeyboardPress(p, key, None, delay)
  \/ \E char \in Chars : KeyboardSendCharacter(p, char)
  \/ \E text \in Texts, delay \in 0..MaxDelay : KeyboardType(p, text, delay)

\* the calls of the mouse and of the touchscreen
PointerCalls(p) ==
  \/ \E t \in Targets, steps \in 1..MaxSteps : MouseMove(p, t[1], t[2], steps)
  \/ \E button \in ButtonOpts, clickCount \in ClickCountOpts : MouseDown(p, button, clickCount)
  \/ \E button \in ButtonOpts, clickCount \in ClickCountOpts : MouseUp(p, button, clickCount)
  \/ \E t \in Targets, button \in ButtonOpts, clickCount \in ClickCountOpts,
        delay \in 0..MaxDelay :
       MouseClick(p, t[1], t[2], button, clickCount, delay, MaxSteps)
  \/ \E t \in TapHalves : TouchscreenTap(p, t[1], t[2])

\* a single caller of the three controllers, one call at a time
Next ==
  \E p \in Procs : KeyboardCalls(p, JointKeys) \/ KeyboardResume(p) \/ PointerCalls(p)
                   \/ PointerResume(p) \/ Session(p)

Spec == Init /\ [][Next]_vars

\* a single caller of the keyboard
NextKeyboard == \E p \in Procs : KeyboardCalls(p, KeyNames) \/ KeyboardResume(p) \/ Session(p)

SpecKeyboard == Init /\ [][NextKeyboard]_vars

\* a single caller of the mouse and of the touchscreen
NextPointer == \E p \in Procs : PointerCalls(p) \/ PointerResume(p) \/ Session(p)

SpecPointer == Init /\ [][NextPointer]_vars

\* the state after construction, for callers that do not await one another
InitOverlap ==
  /\ overlapping = TRUE
  /\ _modifiers = 0
  /\ _pressedKeys = {}
  /\ _x = 0
  /\ _y = 0
  /\ _button = "none"
  /\ call = [p \in Procs |-> NoCall]
  /\ stage = [p \in Procs |-> "idle"]
  /\ idx = [p \in Procs |-> 0]
  /\ sent = [p \in Procs |-> << >>]
  /\ acked = [p \in Procs |-> 0]
  /\ outcome = [p \in Procs |-> "none"]
  /\ pre = [p \in Procs |-> State]
  /\ atSend = [p \in Procs |-> State]
  /\ okState = [p \in Procs |-> State]

\* the keys of the overlapping callers: the two keys of the label Shift
OverlapKeys == {"Shift", "ShiftRight"}

\* the calls of the overlapping callers
OverlapCalls(p) ==
  \/ \E key \in OverlapKeys, delay \in {0, MaxDelay} : KeyboardPress(p, key, None, delay)
  \/ KeyboardSendCharacter(p, "a")
  \/ MouseClick(p, 1, 2, None, 0, 0, 0)
  \/ TouchscreenTap(p, 3, -1)

\* callers of the three controllers that overlap: a task starts a call while
\* another task is suspended inside one; the session answers every send
NextOverlap ==
  \E p \in Procs : \/ OverlapCalls(p)
                   \/ PressDownAcked(p)
                   \/ PressWake(p)
                   \/ PressUpAcked(p)
                   \/ ClickMoveAcked(p)
                   \/ ClickDownAcked(p)
                   \/ TapStartAcked(p)
                   \/ SendAcked(p)

SpecOverlap == InitOverlap /\ [][NextOverlap]_vars

(***************************************************************************)
(* Properties                                                              *)
(***************************************************************************)
\* the call of task p is the operation op of the keyboard on a key of the table
KeyCall(p, op) == call[p].op = op /\ call[p].key \in KnownKeys

\* the hardware code of a key name of the table (no entry changes it with Shift)
CodeOf(k) == keyDefinitions[k].code

\* the labels a hardware code produces, without and with Shift
LabelsOfCode(c) ==
  {keyDefinitions[k].key : k \in {n \in KnownKeys : CodeOf(n) = c}}
  \cup {keyDefinitions[k].shiftKey :
          k \in {n \in KnownKeys : CodeOf(n) = c /\ "shiftKey" \in DOMAIN keyDefinitions[n]}}

\* the modifier labels and their bits
ModifierLabels == {"Alt", "Control", "Meta", "Shift"}

\* C1: in every reachable state each bit of the modifier mask (Alt=1,
\* Control=2, Meta=4, Shift=8) is set if and only if a key with that modifier
\* as label is held, that is, its hardware code is in the set of pressed keys.
C1_ModifierBitIffHeld ==
  \A m \in ModifierLabels :
    HasBit(_modifiers, modifierBit(m)) <=> (\E c \in _pressedKeys : m \in LabelsOfCode(c))

\* C2: the key-down event of down(k) carries autoRepeat = true exactly when a
\* key producing the same label was held when down was called.
C2_AutoRepeatIffLabelHeld ==
  \A p \in Procs :
    (KeyCall(p, "down") /\ Len(sent[p]) = 1) =>
      (sent[p][1].autoRepeat <=>
         (\E c \in pre[p].pressedKeys : sent[p][1].key \in LabelsOfCode(c)))

\* C3: up(k) for a key of the table whose hardware code is not in the set of
\* pressed keys ends in the invariant-violation error (KeyError) and hands no
\* event to the session; when the code is in the set, up hands exactly one
\* key-up event for that code to the session, does not end in that error, and
\* returns normally once the session has answered.
C3_UpRaisesIffNotPressed ==
  \A p \in Procs :
    KeyCall(p, "up") =>
      IF CodeOf(call[p].key) \notin pre[p].pressedKeys
      THEN /\ stage[p] = "done"
           /\ outcome[p] = "InvariantViolation"
           /\ sent[p] = << >>
      ELSE /\ Len(sent[p]) = 1
           /\ sent[p][1].type = "keyUp"
           /\ sent[p][1].code = CodeOf(call[p].key)
           /\ outcome[p] \in {"none", "ok", "ChannelFailure", "Cancelled"}
           /\ (acked[p] = 1 => stage[p] = "done" /\ outcome[p] = "ok")

\* C3 witness: an up ended in the invariant-violation error while another
\* key was held.
C3_Witness ==
  \E p \in Procs :
    /\ KeyCall(p, "up")
    /\ outcome[p] = "InvariantViolation"
    /\ _pressedKeys # {}

\* C4: down, up and press with a key name that is not in the table end in
\* the unknown-key error with no event handed to the session and with the
\* modifier mask and the set of pressed keys as they were before the call.
C4_UnknownKeyNoEffect ==
  \A p \in Procs :
    (call[p].op \in {"down", "up", "press"} /\ call[p].key \notin KnownKeys) =>
      /\ stage[p] = "done"
      /\ outcome[p] = "UnknownKey"
      /\ sent[p] = << >>
      /\ _modifiers = pre[p].modifiers
      /\ _pressedKeys = pre[p].pressedKeys

\* C4 witness: a press of an unknown key ended in the error while keys and a
\* modifier were held.
C4_Witness ==
  \E p \in Procs :
    /\ call[p].op = "press"
    /\ call[p].key \notin KnownKeys
    /\ outcome[p] = "UnknownKey"
    /\ _pressedKeys # {}
    /\ _modifiers # 0

\* C5: press(m) of a modifier key m that returned normally leaves the
\* modifier mask equal to its value before the press, from every state.
C5_PressModifierRestoresMask ==
  \A p \in Procs :
    (/\ KeyCall(p, "press")
     /\ keyDefinitions[call[p].key].key \in ModifierLabels
     /\ stage[p] = "done"
     /\ outcome[p] = "ok") => _modifiers = pre[p].modifiers

\* C5 as amended: press(m) of a modifier key m that returned normally leaves
\* the bit of m clear and the other bits as they were before the press; the
\* mask is restored exactly when the bit of m was clear before the press.
C5_PressModifierClearsItsBit ==
  \A p \in Procs :
    (/\ KeyCall(p, "press")
     /\ keyDefinitions[call[p].key].key \in ModifierLabels
     /\ stage[p] = "done"
     /\ outcome[p] = "ok") =>
      LET bit == modifierBit(keyDefinitions[call[p].key].key)
      IN /\ _modifiers = BitClear(pre[p].modifiers, bit)
         /\ (_modifiers = pre[p].modifiers <=> ~HasBit(pre[p].modifiers, bit))

\* C5 witness: a press of a modifier returned while another modifier was
\* held, and the mask is as before the press.
C5_Witness ==
  \E p \in Procs :
    /\ KeyCall(p, "press")
    /\ keyDefinitions[call[p].key].key = "Shift"
    /\ stage[p] = "done"
    /\ outcome[p] = "ok"
    /\ pre[p].modifiers \in {1, 2, 4}
    /\ _modifiers = pre[p].modifiers

\* C6: when an operation ends with a failure of the session, the
\* controllers' state is the state right after the last send of the call that
\* the session answered (the state at the start of the call when it answered
\* none): no mutation made for the failed send is left.
C6_FailureLeavesLastAnsweredState ==
  \A p \in Procs : outcome[p] = "ChannelFailure" => State = okState[p]

\* C6 as amended: when an operation ends with a failure of the session, the
\* controllers' state is the state as it was when the failed send was handed
\* to the session; the mutations the operation made before that send (the
\* pressed key and modifier bit, the new cursor position, the active button)
\* are kept, nothing is rolled back.
C6_FailureLeavesStateAtSend ==
  \A p \in Procs : outcome[p] = "ChannelFailure" => State = atSend[p]

\* C6 witness: a call failed at a send and the mutation made for that send
\* is still there.
C6_Witness ==
  \E p \in Procs :
    /\ outcome[p] = "ChannelFailure"
    /\ State # okState[p]
    /\ _pressedKeys # {}

\* C7: a press aborted by a cancellation after the session answered its
\* key-down and before its up started leaves the hardware code of the key in
\* the set of pressed keys and, for a modifier key, its bit set; and a
\* cancelled call leaves the controllers' state as it was at its suspension.
C7_AbortedPressKeepsKeyDown ==
  \A p \in Procs :
    /\ (KeyCall(p, "press") /\ outcome[p] = "Cancelled" /\ acked[p] = 1
        /\ Len(sent[p]) = 1) =>
         /\ CodeOf(call[p].key) \in _pressedKeys
         /\ HasBit(_modifiers, modifierBit(keyDefinitions[call[p].key].key))
              = (keyDefinitions[call[p].key].key \in ModifierLabels)
    /\ (outcome[p] = "Cancelled" => State = atSend[p])

\* C7 witness: a press of a modifier key was cancelled in its dwell delay.
C7_Witness ==
  \E p \in Procs :
    /\ KeyCall(p, "press")
    /\ call[p].delay # 0
    /\ keyDefinitions[call[p].key].key \in ModifierLabels
    /\ outcome[p] = "Cancelled"
    /\ acked[p] = 1
    /\ Len(sent[p]) = 1

\* what a finished or suspended call of the keyboard made of the set prs of
\* pressed keys when a down adds its code only if downAdds holds of the
\* outcome of the call
PressedAfter(p, prs, downAdds) ==
  IF KeyCall(p, "down")
  THEN IF downAdds THEN prs \cup {CodeOf(call[p].key)} ELSE prs
  ELSE IF KeyCall(p, "up") THEN prs \ {CodeOf(call[p].key)}
  ELSE IF KeyCall(p, "press")
       THEN IF Len(sent[p]) = 1 THEN prs \cup {CodeOf(call[p].key)}
            ELSE prs \ {CodeOf(call[p].key)}
  ELSE prs

\* C8: the set of pressed keys holds exactly the hardware codes of the keys
\* held: a down that succeeded adds the code of its key, a down that did not
\* succeed adds nothing, the matching up removes the code, and nothing else
\* changes the set; also for repeated downs and key names sharing a code.
C8_PressedKeysFollowSuccessfulDowns ==
  \A p \in Procs :
    stage[p] = "done" =>
      _pressedKeys = PressedAfter(p, pre[p].pressedKeys, outcome[p] = "ok")

\* C8 as amended: a down(k) that resolved its key adds the hardware code of k
\* to the set, whether or not its send then succeeded; the next up of a key
\* with that code removes it, whether or not its send succeeded; repeated
\* downs of a code count once; nothing else changes the set.
C8_PressedKeysFollowDowns ==
  \A p \in Procs :
    stage[p] # "idle" => _pressedKeys = PressedAfter(p, pre[p].pressedKeys, TRUE)

\* C8 witness: a down of 'a' whose send failed left KeyA in the set, which
\* held another key already.
C8_Witness ==
  \E p \in Procs :
    /\ KeyCall(p, "down")
    /\ call[p].key = "a"
    /\ outcome[p] = "ChannelFailure"
    /\ "KeyA" \in _pressedKeys
    /\ "KeyA" \notin pre[p].pressedKeys
    /\ pre[p].pressedKeys # {}

\* the modifier mask reduced to its Shift bit
ShiftOnly(mods) == IF HasBit(mods, 8) THEN 8 ELSE 0

\* the modifier mask reduced to its Shift bit and to whether another
\* modifier is set (Alt standing for any of Alt, Control and Meta)
ShiftAndOther(mods) == ShiftOnly(mods) + (IF mods % 8 # 0 THEN 1 ELSE 0)

\* the event ev of a down without text override carries the description d
CarriesDescription(ev, d) ==
  /\ ev.key = d.key
  /\ ev.windowsVirtualKeyCode = d.keyCode
  /\ ev.code = d.code
  /\ ev.location = d.location
  /\ ev.text = d.text

\* C9: the description of a key of the table is a function of the key name
\* and of the Shift bit only: in every state it is the description the same
\* key has with the same Shift bit and no other modifier, and the event of a
\* down carries that description.
C9_DescriptionByShiftBitOnly ==
  /\ \A k \in KnownKeys :
       keyDescriptionForString(k, _modifiers)
         = keyDescriptionForString(k, ShiftOnly(_modifiers))
  /\ \A p \in Procs :
       (KeyCall(p, "down") /\ call[p].text = None /\ Len(sent[p]) = 1) =>
         CarriesDescription(sent[p][1],
           keyDescriptionForString(call[p].key, ShiftOnly(pre[p].modifiers)))

\* C9 as amended: the description of a key of the table is a function of the
\* key name, of the Shift bit and of whether any of Alt, Control and Meta is
\* set (the text is empty then); it does not depend on which of the three is
\* set nor on the set of pressed keys.
C9_DescriptionByShiftAndOtherModifier ==
  /\ \A k \in KnownKeys :
       keyDescriptionForString(k, _modifiers)
         = keyDescriptionForString(k, ShiftAndOther(_modifiers))
  /\ \A p \in Procs :
       (KeyCall(p, "down") /\ call[p].text = None /\ Len(sent[p]) = 1) =>
         CarriesDescription(sent[p][1],
           keyDescriptionForString(call[p].key, ShiftAndOther(pre[p].modifiers)))

\* C9 witness: a down of 'a' with Control held sent an event with empty text.
C9_Witness ==
  \E p \in Procs :
    /\ KeyCall(p, "down")
    /\ call[p].key = "a"
    /\ call[p].text = None
    /\ pre[p].modifiers = 2
    /\ Len(sent[p]) = 1
    /\ sent[p][1].text = ""

\* |a|
Abs(a) == IF a < 0 THEN -a ELSE a

\* v is an integer nearest to from_ + (to - from_) * i / n
Nearest(v, from_, to, i, n) == 2 * Abs(v * n - (from_ * n + (to - from_) * i)) <= n

\* C10: move(x, y, steps=n) with n >= 1 hands one pointer-moved event per
\* step to the session and exactly n when it returns; the i-th event carries
\* in each coordinate an integer nearest to origin + (target - origin) * i / n,
\* the n-th event carries the target; and the cursor position is the target
\* from the first send on.
C10_MoveInterpolates ==
  \A p \in Procs :
    call[p].op = "move" =>
      LET n == call[p].steps
      IN /\ Len(sent[p]) = idx[p]
         /\ idx[p] \in 1..n
         /\ (outcome[p] = "ok" => Len(sent[p]) = n /\ acked[p] = n)
         /\ \A i \in 1..Len(sent[p]) :
              /\ sent[p][i].type = "mouseMoved"
              /\ Nearest(sent[p][i].x, pre[p].x, call[p].x, i, n)
              /\ Nearest(sent[p][i].y, pre[p].y, call[p].y, i, n)
              /\ (i = n => sent[p][i].x = call[p].x /\ sent[p][i].y = call[p].y)
         /\ _x = call[p].x
         /\ _y = call[p].y

\* C10 witness: a move of three steps away from a position other than the
\* origin returned.
C10_Witness ==
  \E p \in Procs :
    /\ call[p].op = "move"
    /\ call[p].steps = 3
    /\ outcome[p] = "ok"
    /\ pre[p].x # 0
    /\ pre[p].x # call[p].x
    /\ Len(sent[p]) = 3

\* C11: click(x, y, options) hands to the session a pointer-moved event at
\* (x, y) (one step, although the options carry steps), then a pressed event,
\* then a released event, and exactly these three when it returns; the only
\* sleep is between pressed and released; pressed and released carry (x, y),
\* the requested button and clickCount; after the return the active button is
\* none.
C11_ClickMovesPressesReleases ==
  \A p \in Procs :
    call[p].op = "click" =>
      LET c == call[p]
          n == Len(sent[p])
          at(e) == e.x = c.x /\ e.y = c.y
          asked(e) == e.button = ButtonOf(c.button)
                        /\ e.clickCount = ClickCountOf(c.clickCount)
      IN /\ n \in 1..3
         /\ sent[p][1].type = "mouseMoved" /\ at(sent[p][1])
         /\ sent[p][1].button = pre[p].button
         /\ (n >= 2 => sent[p][2].type = "mousePressed" /\ at(sent[p][2]) /\ asked(sent[p][2]))
         /\ (n >= 3 => sent[p][3].type = "mouseReleased" /\ at(sent[p][3]) /\ asked(sent[p][3]))
         /\ (stage[p] = "click.sleep" => n = 2 /\ acked[p] = 2 /\ c.delay # 0)
         /\ (outcome[p] = "ok" => n = 3 /\ acked[p] = 3 /\ _button = "none")

\* C11 witness: a click with a steps option, the right button, a click count
\* of 2 and a delay returned, away from where the cursor was.
C11_Witness ==
  \E p \in Procs :
    /\ call[p].op = "click"
    /\ call[p].stepsOpt > 1
    /\ call[p].button = "right"
    /\ call[p].clickCount = 2
    /\ call[p].delay # 0
    /\ outcome[p] = "ok"
    /\ pre[p].x # call[p].x
    /\ Len(sent[p]) = 3

\* v is round(half2 / 2): the nearest integer, the even one of two nearest
RoundedHalf(v, half2) ==
  /\ Abs(2 * v - half2) <= 1
  /\ (Abs(2 * v - half2) = 1 => v % 2 = 0)

\* C12: tap(x, y) hands to the session a touchStart with exactly one touch
\* point at (round(x), round(y)), then, once that is answered, a touchEnd
\* with no touch point, and exactly these two when it returns; when the send
\* of touchStart fails there is no touchEnd.
C12_TapStartsThenEnds ==
  \A p \in Procs :
    call[p].op = "tap" =>
      LET n == Len(sent[p])
          start == sent[p][1]
      IN /\ n \in 1..2
         /\ start.type = "touchStart"
         /\ Len(start.touchPoints) = 1
         /\ RoundedHalf(start.touchPoints[1].x, call[p].x2)
         /\ RoundedHalf(start.touchPoints[1].y, call[p].y2)
         /\ (n = 2 => /\ sent[p][2].type = "touchEnd"
                      /\ sent[p][2].touchPoints = << >>
                      /\ acked[p] >= 1)
         /\ (outcome[p] = "ok" => n = 2 /\ acked[p] = 2)
         /\ (outcome[p] = "ChannelFailure" /\ acked[p] = 0 => n = 1)

\* C12 witness: a tap at (1.5, -0.5) returned after both events.
C12_Witness ==
  \E p \in Procs :
    /\ call[p].op = "tap"
    /\ call[p].x2 = 3
    /\ call[p].y2 = -1
    /\ outcome[p] = "ok"
    /\ Len(sent[p]) = 2

\* the state of a call of type(text, delay) on a table without a 'char'
\* entry: the events handed over are the 'char' events of a prefix of the
\* text, in its order, and the keyboard is as the call found it
TypeSendsChars(p) ==
  LET c == call[p]
      n == Len(sent[p])
  IN /\ n <= Len(c.text)
     /\ \A i \in 1..n : /\ sent[p][i].type = "char"
                        /\ sent[p][i].text = c.text[i]
     /\ _modifiers = pre[p].modifiers
     /\ _pressedKeys = pre[p].pressedKeys
     /\ (stage[p] = "type.sleep" => c.delay # 0 /\ acked[p] = n)
     /\ (outcome[p] = "ok" => n = Len(c.text) /\ acked[p] = n)

\* the step of a call of type: with a delay the answer to the send of a
\* character leads into the pacing sleep and a further character is handed
\* over out of that sleep only; without a delay there is no sleep
TypePaces(p) ==
  call[p].op = "type" /\ call'[p] = call[p] =>
    /\ (stage[p] = "type.char" /\ acked'[p] = acked[p] + 1 /\ call[p].delay # 0
          => stage'[p] = "type.sleep")
    /\ (Len(sent'[p]) = Len(sent[p]) + 1 /\ call[p].delay # 0
          => stage[p] = "type.sleep")
    /\ (call[p].delay = 0 => stage'[p] # "type.sleep")

\* C13: as the key table has no 'char' entry, type(text, delay) hands to the
\* session one 'char' event for each character of the text, in the order of
\* the text, each followed by one pacing sleep when the delay is not 0; it
\* sends no keyDown, rawKeyDown or keyUp and leaves _modifiers and
\* _pressedKeys as they were, also for a character that is a key of the table.
C13_TypeSendsCharacters ==
  /\ [](\A p \in Procs : call[p].op = "type" => TypeSendsChars(p))
  /\ [][\A p \in Procs : TypePaces(p)]_vars

\* C13 witness: type of a text that is a key of the table returned, with a
\* delay, while a modifier key is held.
C13_Witness ==
  \E p \in Procs :
    /\ call[p].op = "type"
    /\ call[p].text = <<"a">>
    /\ call[p].delay # 0
    /\ outcome[p] = "ok"
    /\ Len(sent[p]) = 1
    /\ _modifiers # 0

\* at most the last event of a call waits for its answer
OneSendInFlight(p) ==
  /\ acked[p] <= Len(sent[p])
  /\ Len(sent[p]) <= acked[p] + 1
  /\ (stage[p] \in SendStages => Len(sent[p]) = acked[p] + 1)
  /\ (stage[p] \in SleepStages => Len(sent[p]) = acked[p])
  /\ (outcome[p] = "ok" => Len(sent[p]) = acked[p])
  /\ (outcome[p] = "ChannelFailure" => Len(sent[p]) = acked[p] + 1)

\* the events of a call are handed over one after the other: inside the call
\* an event is appended once all before it are answered, and never after the
\* call ended; the events of the next call begin a new list
SendsInProgramOrder(p) ==
  sent'[p] # sent[p] =>
    IF Idle(p)
    THEN Len(sent'[p]) <= 1 /\ acked'[p] = 0
    ELSE /\ Len(sent'[p]) = Len(sent[p]) + 1
         /\ SubSeq(sent'[p], 1, Len(sent[p])) = sent[p]
         /\ acked'[p] = Len(sent[p])
         /\ call'[p] = call[p]

\* C14: for the single sequential caller the events reach the session in
\* program order: inside press, click, type, move and tap each event is
\* answered before the next one of the call is handed over, a call begins
\* only when the call before it ended, and after a failure of a send the
\* call hands over nothing more.
C14_DispatchInProgramOrder ==
  /\ [](\A p \in Procs : OneSendInFlight(p))
  /\ [](\A p, q \in Procs : ~Idle(p) /\ ~Idle(q) => p = q)
  /\ [][\A p \in Procs : SendsInProgramOrder(p)]_vars

\* C14 witness: a click whose move was answered and whose send of the
\* pressed event failed: two events handed over, one answered.
C14_Witness ==
  \E p \in Procs :
    /\ call[p].op = "click"
    /\ outcome[p] = "ChannelFailure"
    /\ Len(sent[p]) = 2
    /\ acked[p] = 1

\* the calls that are to leave the keyboard alone, and those that are to
\* leave the mouse alone
LeavesKeyboard == {"move", "mouseDown", "mouseUp", "click", "tap", "sendCharacter"}

LeavesMouse == {"down", "up", "press", "type", "sendCharacter"}

\* C15: move, down, up and click of the mouse, tap and sendCharacter leave
\* _modifiers and _pressedKeys as the call found them, at every point of the
\* call and however it ends; down, up, press, type and sendCharacter of the
\* keyboard leave the cursor position and the active button as they were.
C15_ControllersKeepEachOthersState ==
  \A p \in Procs :
    /\ (call[p].op \in LeavesKeyboard =>
          _modifiers = pre[p].modifiers /\ _pressedKeys = pre[p].pressedKeys)
    /\ (call[p].op \in LeavesMouse =>
          _x = pre[p].x /\ _y = pre[p].y /\ _button = pre[p].button)

\* C15 witness: a click failed at a send while a modifier key is held and the
\* cursor is away from the origin.
C15_Witness ==
  \E p \in Procs :
    /\ call[p].op = "click"
    /\ outcome[p] = "ChannelFailure"
    /\ _modifiers # 0
    /\ _pressedKeys # {}
    /\ pre[p].x # 0

\* C18: _button is "none" at first, the requested button (default left) after
\* down and "none" after up, whatever button the up names; a mouseMoved event
\* carries the button that is active when it is handed over, a mousePressed
\* event the button its down made active, and a mouseReleased event the
\* button its up call asks for (default left), not the one active before.
C18_ActiveButtonFollowsDownUp ==
  /\ ((\A p \in Procs : call[p].op = "none") => _button = "none")
  /\ \A p \in Procs :
       LET c == call[p]
           n == Len(sent[p])
       IN /\ (c.op = "mouseDown" =>
                /\ _button = ButtonOf(c.button)
                /\ sent[p][1].type = "mousePressed"
                /\ sent[p][1].button = _button)
          /\ (c.op = "mouseUp" =>
                /\ _button = "none"
                /\ sent[p][1].type = "mouseReleased"
                /\ sent[p][1].button = ButtonOf(c.button))
          /\ (c.op = "move" =>
                /\ _button = pre[p].button
                /\ \A i \in 1..n : sent[p][i].type = "mouseMoved"
                                     /\ sent[p][i].button = _button)
          /\ (c.op = "click" =>
                /\ (n >= 1 => sent[p][1].button = pre[p].button)
                /\ (n = 2 => _button = ButtonOf(c.button) /\ sent[p][2].button = _button)
                /\ (n = 3 => _button = "none" /\ sent[p][3].button = ButtonOf(c.button)))
          /\ (n >= 1 /\ sent[p][n].type = "mouseMoved" =>
                sent[p][n].button = atSend[p].button)

\* C18 witness: up(button='right') while the left button is the active one.
C18_Witness ==
  \E p \in Procs :
    /\ call[p].op = "mouseUp"
    /\ call[p].button = "right"
    /\ pre[p].button = "left"
    /\ Len(sent[p]) = 1
    /\ sent[p][1].button = "right"
    /\ _button = "none"

\* C19: when up(k) ends in the invariant-violation error (KeyError, the code
\* of k is not pressed), _modifiers and _pressedKeys are exactly as before
\* the call, also when k has a modifier label and another key with that
\* label is held.
C19_FailedUpLeavesState ==
  \A p \in Procs :
    (KeyCall(p, "up") /\ outcome[p] = "InvariantViolation") =>
      /\ _modifiers = pre[p].modifiers
      /\ _pressedKeys = pre[p].pressedKeys

\* the bits of the modifier labels that the pressed hardware codes produce
HeldMask(pressed) ==
  LET bitIfHeld(m) == IF \E c \in pressed : m \in LabelsOfCode(c) THEN modifierBit(m) ELSE 0
  IN bitIfHeld("Alt") + bitIfHeld("Control") + bitIfHeld("Meta") + bitIfHeld("Shift")

\* C17: for down(k) of a key of the table without a text option: when Alt,
\* Control or Meta is held at the call the event is rawKeyDown with empty
\* text and unmodifiedText; when only Shift or no modifier is held and the
\* key resolves to a text that is not empty, the event is keyDown and its
\* text is that of the key, the shifted one when Shift is held and the key
\* has a shifted variant.
C17_TextByHeldModifiers ==
  \A p \in Procs :
    (KeyCall(p, "down") /\ call[p].text = None /\ Len(sent[p]) = 1) =>
      LET held == HeldMask(pre[p].pressedKeys)
          resolved == keyDescriptionForString(call[p].key, held)
          ev == sent[p][1]
      IN IF held % 8 # 0
         THEN ev.type = "rawKeyDown" /\ ev.text = "" /\ ev.unmodifiedText = ""
         ELSE resolved.text # "" =>
                ev.type = "keyDown" /\ ev.text = resolved.text
                  /\ ev.unmodifiedText = resolved.text

\* the last event the task handed to the session
LastSent(p) == sent[p][Len(sent[p])]

\* the task is inside press of a key with label m, its key down handed over
\* and its key up not yet reached
HoldsInPress(q, m) ==
  /\ call[q].op = "press"
  /\ stage[q] \in {"press.down", "press.sleep"}
  /\ keyDefinitions[call[q].key].key = m

\* C16: with overlapping callers the key-up event of a modifier key carries
\* the bit of its label cleared and its call raises no error, whatever the
\* other callers hold; so the state is reached in which a caller is still
\* between the down and the up of its press of Shift while the key-up event
\* of another caller and the mask have the Shift bit cleared (C16_Witness).
C16_OverlappingUpClearsBit ==
  \A p \in Procs :
    (sent[p] # << >> /\ LastSent(p).type = "keyUp" /\ LastSent(p).key \in ModifierLabels) =>
      /\ ~HasBit(LastSent(p).modifiers, modifierBit(LastSent(p).key))
      /\ outcome[p] \in {"none", "ok"}

\* C16 witness: caller q is inside press of a Shift key, its key down handed
\* over, while the key-up event of caller p carries the mask without the
\* Shift bit, the mask has no Shift bit, and no call has ended in an error.
C16_Witness ==
  \E p, q \in Procs :
    /\ p # q
    /\ HoldsInPress(q, "Shift")
    /\ outcome[q] = "none"
    /\ sent[p] # << >>
    /\ LastSent(p).type = "keyUp"
    /\ LastSent(p).key = "Shift"
    /\ ~HasBit(LastSent(p).modifiers, modifierBit("Shift"))
    /\ ~HasBit(_modifiers, modifierBit("Shift"))
    /\ outcome[p] \in {"none", "ok"}

\* the step hands an event of task p to the session
HandsOver(p) ==
  /\ stage'[p] \in SendStages
  /\ Idle(p) \/ Len(sent'[p]) = Len(sent[p]) + 1

\* the event handed over in the step carries the mask as the step leaves it;
\* the key down of a modifier key has the bit of its label set, its key up
\* has it cleared
StampsCurrentModifiers(p) ==
  HandsOver(p) =>
    LET ev == sent'[p][Len(sent'[p])]
    IN /\ ev.modifiers = _modifiers'
       /\ (ev.type \in {"keyDown", "rawKeyDown"} /\ ev.key \in ModifierLabels
             => HasBit(ev.modifiers, modifierBit(ev.key)))
       /\ (ev.type = "keyUp" /\ ev.key \in ModifierLabels
             => ~HasBit(ev.modifiers, modifierBit(ev.key)))

\* C20: under every interleaving of overlapping calls of the keyboard, the
\* mouse and the touchscreen, the modifiers of each event handed to the
\* session equal _modifiers at that instant, the update of the state by a
\* key down or up and the construction of its event being one step; the key
\* down of a modifier key carries its bit set, its key up carries it cleared.
C20_EventsCarryCurrentModifiers ==
  [][\A p \in Procs : StampsCurrentModifiers(p)]_vars

\* C20 witness: the two events of one tap carry different masks, as another
\* caller pressed Shift between them, and the later one carries the mask of
\* the state.
C20_Witness ==
  \E p \in Procs :
    /\ call[p].op = "tap"
    /\ stage[p] = "tap.end"
    /\ Len(sent[p]) = 2
    /\ sent[p][1].modifiers # sent[p][2].modifiers
    /\ sent[p][2].modifiers = _modifiers
    /\ \E q \in Procs : q # p /\ HoldsInPress(q, "Shift")

====
